---- MODULE Spec2Model ----
(***************************************************************************)
(* Model of src/src/brand_filter.py: the token classifier and listing      *)
(* decision engine (TokenProcessor, DataProcessor.filter_data), the        *)
(* rancode refiner with its catalogue index (ProductMasterProcessor,       *)
(* refine_label_rancode) and the NG-word removal (NGWordProcessor).        *)
(*                                                                         *)
(* A Python str is a sequence of one-character strings; a dict is a        *)
(* function whose DOMAIN is its key set.  Numeric fields of the token and  *)
(* override files are well-formed decimal numbers and are written as the   *)
(* naturals int() returns for them.                                        *)
(***************************************************************************)
EXTENDS Integers, Sequences, FiniteSets, TLC

VARIABLES
    \* TokenProcessor / DataProcessor.filter_data
    htrue, hfalse, hconflict,   \* the three token dictionaries
    addRow,                     \* the override (--add) row applied last
    row, result,                \* the stdin row being filtered, the lines printed for it
    fpc,                        \* position in filter_data
    \* ProductMasterProcessor / refine_label_rancode
    pm, pm_code,                \* the catalogue index
    p_brand, c_brand,           \* the target product brand and maker brand
    rawLines,                   \* the stdin lines as they were read
    lines,                      \* the stdin lines buffered by pass 1
    hash_rancode,               \* the group statistics
    emitted,                    \* what pass 2 printed, one record per buffered line
    rpc,                        \* position in refine_label_rancode
    \* NGWordProcessor
    ng,                         \* the NG dictionary: length -> first character -> words
    ngTitle,                    \* the title given to remove_ng_words
    first,                      \* the scan of the outermost call: the title scanned, the match
    cleaned,                    \* what remove_ng_words returned for title
    again,                      \* what remove_ng_words returned for cleaned
    npc,                        \* position in the NG-word run
    \* DataProcessor.main_processing / main_ng_word / put_token_list
    aggMode,                    \* the entry point, its flag argument and args.idx
    hash_tokens, comp,          \* token frequencies, per-token per-label statistics
    item, prod,                 \* the two membership sets of the output step
    aggLines,                   \* the stdin lines read so far
    printed,                    \* the token lines printed by put_token_list
    apc,                        \* position in the aggregation run
    \* JanCodeProcessor
    janCode, companyCode,       \* the argument and the result of the derivation
    jpc,                        \* position in the derivation
    \* the chain of recursive calls of NGWordProcessor.remove_ng_words
    calls,                      \* the innermost call and the calls it leads to
    cur,                        \* the title argument of the innermost call
    framesLeft,                 \* the frames the interpreter can still push
    removedWord,                \* the target removed before the innermost call
    cpc                         \* position in the chain of calls

fvars == <<htrue, hfalse, hconflict, addRow, row, result, fpc>>
rvars == <<pm, pm_code, p_brand, c_brand, rawLines, lines, hash_rancode, emitted, rpc>>
nvars == <<ng, ngTitle, first, cleaned, again, npc>>
avars == <<aggMode, hash_tokens, comp, item, prod, aggLines, printed, apc>>
jvars == <<janCode, companyCode, jpc>>
cvars == <<calls, cur, framesLeft, removedWord, cpc>>
vars == <<fvars, rvars, nvars, avars, jvars, cvars>>

----------------------------------------------------------------------------
(* Bounds of the model *)
MaxPmRows == 1
MaxLines == 3
MaxNgWords == 2
MaxTitleLen == 5
MaxFrames == 2

----------------------------------------------------------------------------
(* Python str and dict primitives *)

\* str.isspace() on the characters of the model alphabet
IsSpace(c) == c \in {" ", "\t", "\n"}

RECURSIVE LStrip(_)
LStrip(s) == IF s # <<>> /\ IsSpace(Head(s)) THEN LStrip(Tail(s)) ELSE s

RECURSIVE RStrip(_)
RStrip(s) ==
    IF s # <<>> /\ IsSpace(s[Len(s)]) THEN RStrip(SubSeq(s, 1, Len(s) - 1)) ELSE s

\* str.strip()
strip(s) == RStrip(LStrip(s))

\* index of the first character of s satisfying the set cs, or Len(s)+1
FirstIn(s, cs) ==
    IF \E i \in 1..Len(s) : s[i] \in cs
    THEN CHOOSE i \in 1..Len(s) : s[i] \in cs /\ \A j \in 1..(i - 1) : s[j] \notin cs
    ELSE Len(s) + 1

\* str.split(sep) for a one-character separator: empty fields are kept
RECURSIVE split_sep(_, _)
split_sep(s, sep) ==
    LET i == FirstIn(s, {sep})
    IN  IF i > Len(s) THEN <<s>>
        ELSE <<SubSeq(s, 1, i - 1)>> \o split_sep(SubSeq(s, i + 1, Len(s)), sep)

\* str.split(): split on runs of whitespace, no empty tokens
RECURSIVE split_ws(_)
split_ws(s) ==
    LET t == LStrip(s)
        n == FirstIn(t, {" ", "\t", "\n"})
    IN  IF t = <<>> THEN <<>>
        ELSE <<SubSeq(t, 1, n - 1)>> \o split_ws(SubSeq(t, n, Len(t)))

\* sep.join(fields)
RECURSIVE join(_, _)
join(fields, sep) ==
    IF fields = <<>> THEN <<>>
    ELSE IF Len(fields) = 1 THEN fields[1]
    ELSE fields[1] \o <<sep>> \o join(Tail(fields), sep)

\* re.sub(r'[\[\]\|]', ' ', s)
sub_brackets(s) == [i \in 1..Len(s) |-> IF s[i] \in {"[", "]", "|"} THEN " " ELSE s[i]]

\* re.sub(r'\s+', ' ', s)
RECURSIVE sub_spaces(_)
sub_spaces(s) ==
    IF s = <<>> THEN <<>>
    ELSE IF IsSpace(Head(s)) THEN <<" ">> \o sub_spaces(LStrip(s))
    ELSE <<Head(s)>> \o sub_spaces(Tail(s))

\* str.lower() on the letters of the model alphabet
UpperCase == <<"A", "B", "C", "D", "E", "F", "L", "M", "N", "O", "R", "S", "T", "U", "Z">>
LowerCase == <<"a", "b", "c", "d", "e", "f", "l", "m", "n", "o", "r", "s", "t", "u", "z">>
lower(s) ==
    [i \in 1..Len(s) |->
        IF \E k \in 1..Len(UpperCase) : UpperCase[k] = s[i]
        THEN LowerCase[CHOOSE k \in 1..Len(UpperCase) : UpperCase[k] = s[i]]
        ELSE s[i]]

\* s.startswith(prefix)
startswith(s, prefix) == Len(prefix) <= Len(s) /\ SubSeq(s, 1, Len(prefix)) = prefix

\* sub in s
RECURSIVE contains(_, _)
contains(sub, s) ==
    IF startswith(s, sub) THEN TRUE
    ELSE IF s = <<>> THEN FALSE
    ELSE contains(sub, Tail(s))

\* s.replace(old, new) for a non-empty old: every occurrence, left to right
RECURSIVE replace(_, _, _)
replace(s, old, new) ==
    IF Len(s) < Len(old) THEN s
    ELSE IF startswith(s, old)
         THEN new \o replace(SubSeq(s, Len(old) + 1, Len(s)), old, new)
    ELSE <<Head(s)>> \o replace(Tail(s), old, new)

\* the sequences of at most n elements of S
RECURSIVE AllSeqs(_, _)
AllSeqs(S, n) ==
    IF n = 0 THEN {<<>>}
    ELSE LET shorter == AllSeqs(S, n - 1)
         IN  shorter \cup {Append(q, x) : q \in {x \in shorter : Len(x) = n - 1}, x \in S}

EmptyDict == [k \in {} |-> 0]
\* d.get(k, default)
Get(d, k, default) == IF k \in DOMAIN d THEN d[k] ELSE default
\* d[k] += 1 on a defaultdict(int)
Inc(d, k) == [x \in (DOMAIN d) \cup {k} |-> IF x = k THEN Get(d, k, 0) + 1 ELSE d[x]]
\* d[k] = v
SetKey(d, k, v) == [x \in (DOMAIN d) \cup {k} |-> IF x = k THEN v ELSE d[x]]
\* del d[k]
DelKey(d, k) == [x \in (DOMAIN d) \ {k} |-> d[x]]

----------------------------------------------------------------------------
(* Input alphabet of the token classifier *)

BRAND == <<"B", "R", "A", "N", "D">>
TokX == <<"x">>
Tokens == {BRAND, TokX}

\* rows of the token-frequency file: (true_count, false_count, token), or too short
TokenRows ==
    {<<t, f, tok>> : t \in {0, 2}, f \in {0, 3}, tok \in Tokens} \cup {<<2, 0>>}

\* the flag column of the override file is only compared for equality, so a flag is
\* one value; the Japanese flags are written in ASCII: F_TAISHO is "対象",
\* F_TAISHOGAI is "対象外", F_HITAISHO is "非対象", F_OTHER any other flag
F_TRUE == "TRUE"
F_FALSE == "FALSE"
F_TAISHO == "taisho"
F_TAISHOGAI == "taishogai"
F_HITAISHO == "hitaisho"
F_OTHER == "other"
AddFlags == {F_TRUE, F_TAISHO, F_FALSE, F_TAISHOGAI, F_HITAISHO, F_OTHER}

\* rows of the override file: (flag, true_count, false_count, token), or too short
AddRows ==
    {<<fl, 5, 7, tok>> : fl \in AddFlags, tok \in Tokens} \cup {<<F_TRUE, 5, 7>>}

----------------------------------------------------------------------------
(* TokenProcessor *)

\* one iteration of the loop of read_tokens; d = [t, f, c] are htrue, hfalse, hconflict
read_tokens_row(d, r) ==
    IF Len(r) < 3 THEN d
    ELSE IF r[1] = 0 THEN [d EXCEPT !.f = SetKey(d.f, r[3], r[2])]
    ELSE IF r[2] = 0 THEN [d EXCEPT !.t = SetKey(d.t, r[3], r[1])]
    ELSE [d EXCEPT !.c = SetKey(d.c, r[3], <<r[1], r[2]>>)]

\* one iteration of the --add loop of filter_data
add_row(d, r) ==
    IF Len(r) < 4 THEN d
    ELSE IF r[1] \in {F_TAISHO, F_TRUE}
         THEN [d EXCEPT !.t = SetKey(d.t, r[4], r[2]),
                        !.c = IF r[4] \in DOMAIN d.c THEN DelKey(d.c, r[4]) ELSE d.c]
    ELSE IF r[1] \in {F_TAISHOGAI, F_HITAISHO, F_FALSE}
         THEN [d EXCEPT !.f = SetKey(d.f, r[4], r[3]),
                        !.c = IF r[4] \in DOMAIN d.c THEN DelKey(d.c, r[4]) ELSE d.c]
    ELSE d

NoInfo ==
    [length |-> 0, true |-> 0, false |-> 0, conflict |-> 0,
     true_words |-> {}, false_words |-> {}, conflict_words |-> {}]

\* the body of the token loop of get_tokens_from_title
count_token(d, h, token) ==
    LET h1 == [h EXCEPT !.length = @ + 1]
    IN  IF token \in DOMAIN d.t
        THEN [h1 EXCEPT !.true = @ + 1, !.true_words = @ \cup {token}]
        ELSE IF token \in DOMAIN d.f
        THEN [h1 EXCEPT !.false = @ + 1, !.false_words = @ \cup {token}]
        ELSE IF token \in DOMAIN d.c
        THEN [h1 EXCEPT !.conflict = @ + 1, !.conflict_words = @ \cup {token}]
        ELSE h1

RECURSIVE count_tokens(_, _, _)
count_tokens(d, h, toks) ==
    IF toks = <<>> THEN h ELSE count_tokens(d, count_token(d, h, Head(toks)), Tail(toks))

get_tokens_from_title(d, title) == count_tokens(d, NoInfo, split_ws(title))

----------------------------------------------------------------------------
(* DataProcessor.filter_data *)

\* minimum number of fields of a stdin row of filter_data
MinFieldsFilter == 11

\* a decision rule in which a tie goes to FALSE
verdict_tie_false(num_true, num_false) ==
    IF num_true = 0 /\ num_false = 0 THEN "UNKNOWN"
    ELSE IF num_true > num_false THEN "TRUE"
    ELSE "FALSE"

\* the verdict of a listing from its merged counts
verdict(num_true, num_false) ==
    IF num_true = 0 /\ num_false = 0 THEN "UNKNOWN"
    ELSE IF num_true >= num_false THEN "TRUE"
    ELSE "FALSE"

\* hash_info[key] += val, and the updates of the three word sets
merge_info(h, info) ==
    [length |-> h.length + info.length, true |-> h.true + info.true,
     false |-> h.false + info.false, conflict |-> h.conflict + info.conflict,
     true_words |-> h.true_words \cup info.true_words,
     false_words |-> h.false_words \cup info.false_words,
     conflict_words |-> h.conflict_words \cup info.conflict_words]

\* a ratio num / den of the output line, 0 when there is no token
ratio(num, den) == IF den > 0 THEN <<num, den>> ELSE <<0, 1>>

\* the title fields of a stdin row, as filter_data reads them
title_fields(parts) == [ptitle |-> parts[4], ititle |-> parts[5]]

\* the body of the stdin loop of filter_data: the lines printed for one raw line
filter_line(d, raw) ==
    LET line == strip(raw)
        parts == split_sep(line, "\t")
    IN  IF Len(parts) < MinFieldsFilter THEN <<>>
        ELSE
          LET tf == title_fields(parts)
              new_ititle == sub_spaces(sub_brackets(tf.ititle))
              h1 == IF new_ititle # <<>>
                    THEN merge_info(NoInfo, get_tokens_from_title(d, new_ititle))
                    ELSE NoInfo
              h2 == IF tf.ptitle # <<>>
                    THEN merge_info(h1, get_tokens_from_title(d, tf.ptitle))
                    ELSE h1
          IN  <<[answer |-> verdict(h2.true, h2.false),
                 line |-> line,
                 num_tokens |-> h2.length,
                 num_true |-> h2.true,
                 num_false |-> h2.false,
                 num_conflict |-> h2.conflict,
                 ratio_true |-> ratio(h2.true, h2.length),
                 ratio_false |-> ratio(h2.false, h2.length),
                 ratio_conflict |-> ratio(h2.conflict, h2.length),
                 wlist_true |-> h2.true_words,
                 wlist_false |-> h2.false_words]>>

\* the text of a stdin line whose tab-separated fields are given
RawLine(fields) == join(fields, "\t") \o <<"\n">>

T_BRAND_SET ==
    <<"B", "R", "A", "N", "D", " ", "5", "0", "0", "m", "l", " ", "S", "e", "t">>
T_X_BRAND == <<"x", " ", "B", "R", "A", "N", "D">>
T_BRACKET == <<"[", "B", "R", "A", "N", "D", "]">>
PTitles == {T_BRAND_SET, T_X_BRAND, T_BRACKET, <<>>}
ITitles == {<<>>, TokX, T_BRACKET}

\* a stdin row: index, ground truth, rancode, primary title, secondary title and
\* n - 5 trailing metadata fields
FilterRow(index, ptitle, ititle, n) ==
    <<index, <<"T", "R", "U", "E">>, <<"1", "2", "3">>, ptitle, ititle>>
        \o [i \in 1..(n - 5) |-> <<"a">>]

FilterRows ==
    {FilterRow(index, pt, it, n) :
        index \in {<<>>, <<"7">>}, pt \in PTitles, it \in ITitles, n \in {11, 12}}

Dicts == [t |-> htrue, f |-> hfalse, c |-> hconflict]

FilterIdle ==
    /\ htrue = EmptyDict
    /\ hfalse = EmptyDict
    /\ hconflict = EmptyDict
    /\ addRow = <<>>
    /\ row = <<>>
    /\ result = <<>>
    /\ fpc = "idle"

RefineIdle ==
    /\ pm = EmptyDict
    /\ pm_code = EmptyDict
    /\ p_brand = <<>>
    /\ c_brand = <<>>
    /\ rawLines = <<>>
    /\ lines = <<>>
    /\ hash_rancode = EmptyDict
    /\ emitted = <<>>
    /\ rpc = "idle"

NgIdle ==
    /\ ng = EmptyDict
    /\ ngTitle = <<>>
    /\ first = [scanned |-> <<>>, match |-> <<>>]
    /\ cleaned = <<>>
    /\ again = <<>>
    /\ npc = "idle"

AggIdle ==
    /\ aggMode = <<>>
    /\ hash_tokens = EmptyDict
    /\ comp = EmptyDict
    /\ item = EmptyDict
    /\ prod = EmptyDict
    /\ aggLines = <<>>
    /\ printed = <<>>
    /\ apc = "idle"

CallIdle ==
    /\ calls = <<>>
    /\ cur = <<>>
    /\ framesLeft = 0
    /\ removedWord = <<>>
    /\ cpc = "idle"

JanIdle ==
    /\ janCode = <<>>
    /\ companyCode = <<>>
    /\ jpc = "idle"

FilterInit ==
    /\ RefineIdle
    /\ NgIdle
    /\ AggIdle
    /\ JanIdle
    /\ CallIdle
    /\ htrue = EmptyDict
    /\ hfalse = EmptyDict
    /\ hconflict = EmptyDict
    /\ addRow = <<>>
    /\ row = <<>>
    /\ result = <<>>
    /\ fpc = "read_tokens"

SetDicts(d) ==
    /\ htrue' = d.t
    /\ hfalse' = d.f
    /\ hconflict' = d.c

\* one iteration of the loop of token_proc.read_tokens(self.args.f)
ReadTokenRow ==
    /\ fpc = "read_tokens"
    /\ \E r \in TokenRows : SetDicts(read_tokens_row(Dicts, r))
    /\ UNCHANGED <<cvars, jvars, addRow, row, result, fpc, rvars, nvars, avars>>

\* end of the token file; if self.args.add: the override file is opened
EndReadTokens ==
    /\ fpc = "read_tokens"
    /\ \E args_add \in BOOLEAN : fpc' = IF args_add THEN "add" ELSE "stdin"
    /\ UNCHANGED <<cvars, jvars, htrue, hfalse, hconflict, addRow, row, result, rvars, nvars, avars>>

\* one iteration of the override loop
AddRow ==
    /\ fpc = "add"
    /\ \E r \in AddRows :
          /\ SetDicts(add_row(Dicts, r))
          /\ addRow' = r
    /\ UNCHANGED <<cvars, jvars, row, result, fpc, rvars, nvars, avars>>

\* end of the override file
EndAdd ==
    /\ fpc = "add"
    /\ fpc' = "stdin"
    /\ UNCHANGED <<cvars, jvars, htrue, hfalse, hconflict, addRow, row, result, rvars, nvars, avars>>

\* one iteration of the stdin loop, up to its print
FilterLine ==
    /\ fpc = "stdin"
    /\ \E r \in FilterRows :
          /\ row' = r
          /\ result' = filter_line(Dicts, RawLine(r))
    /\ fpc' = "printed"
    /\ UNCHANGED <<cvars, jvars, htrue, hfalse, hconflict, addRow, rvars, nvars, avars>>

\* back to the top of the stdin loop
NextLine ==
    /\ fpc = "printed"
    /\ row' = <<>>
    /\ result' = <<>>
    /\ fpc' = "stdin"
    /\ UNCHANGED <<cvars, jvars, htrue, hfalse, hconflict, addRow, rvars, nvars, avars>>

FilterNext ==
    ReadTokenRow \/ EndReadTokens \/ AddRow \/ EndAdd \/ FilterLine \/ NextLine

SpecFilter == FilterInit /\ [][FilterNext]_vars

----------------------------------------------------------------------------
(* JanCodeProcessor *)

\* a prefix test that takes every code starting with 45 as a short one
jan_short_prefix_45(jancode) ==
    startswith(jancode, <<"4", "9">>) \/ startswith(jancode, <<"4", "5">>)

\* re.match(r'^49|^45[0-5]', jancode)
jan_short_prefix(jancode) ==
    \/ startswith(jancode, <<"4", "9">>)
    \/ /\ startswith(jancode, <<"4", "5">>)
       /\ Len(jancode) >= 3
       /\ jancode[3] \in {"0", "1", "2", "3", "4", "5"}

\* s[:n]
Take(s, n) == SubSeq(s, 1, IF Len(s) < n THEN Len(s) ELSE n)

get_companycode_from_jancode(jancode) ==
    IF jan_short_prefix(jancode) THEN Take(jancode, 7) ELSE Take(jancode, 9)

(* Inputs of the derivation: the JAN codes of 13 digits made of a prefix of three  *)
(* digits and one of two tails                                                     *)
JanDigits == {"0", "1", "4", "5", "6", "9"}
JanTails ==
    { <<"1", "2", "3", "4", "5", "6", "7", "8", "9", "0">>,
      <<"4", "9", "4", "5", "0", "4", "5", "5", "4", "9">> }
J49 == <<"4", "9", "0", "1", "2", "3", "4", "5", "6", "7", "8", "9", "0">>
J12 == <<"1", "2", "3", "4", "5", "6", "7", "8", "9", "0", "1", "2", "3">>
JanCodes ==
    {<<a, b, c>> \o t : a \in JanDigits, b \in JanDigits, c \in JanDigits, t \in JanTails}
        \cup {J49, J12}

JanInit ==
    /\ FilterIdle
    /\ RefineIdle
    /\ NgIdle
    /\ AggIdle
    /\ CallIdle
    /\ janCode \in JanCodes
    /\ companyCode = <<>>
    /\ jpc = "call"

\* company_code = jan_processor.get_companycode_from_jancode(jancode)
DeriveCompanyCode ==
    /\ jpc = "call"
    /\ companyCode' = get_companycode_from_jancode(janCode)
    /\ jpc' = "returned"
    /\ UNCHANGED <<janCode, fvars, rvars, nvars, avars, cvars>>

JanNext == DeriveCompanyCode

SpecJan == JanInit /\ [][JanNext]_vars

----------------------------------------------------------------------------
(* ProductMasterProcessor: an attribute that is None is <<>>, a str s is <<s>> *)

\* minimum number of fields of a catalogue row
MinFieldsPm == 9

NoCounts == [name |-> EmptyDict, b |-> EmptyDict, mname |-> EmptyDict, mb |-> EmptyDict]
NoEntry == [name |-> <<>>, b |-> <<>>, mname |-> <<>>, mb |-> EmptyDict]

\* for brand in brands: d[brand] += 1
RECURSIVE inc_all(_, _)
inc_all(d, brands) ==
    IF brands = <<>> THEN d ELSE inc_all(Inc(d, Head(brands)), Tail(brands))

\* for brand in brands: d[brand] = 1
RECURSIVE set_all(_, _)
set_all(d, brands) ==
    IF brands = <<>> THEN d ELSE set_all(SetKey(d, Head(brands), 1), Tail(brands))

\* the body of the loop over makercds; st = [pm, pm_code], f the fields of the row
pm_update(st, makercd, f) ==
    LET brands == IF f.my_brands # <<>> THEN split_sep(f.my_brands, ",") ELSE <<>>
        code0 == Get(st.pm_code, makercd, NoCounts)
        code1 == [code0 EXCEPT
                    !.name = Inc(@, f.makername),
                    !.b = Inc(@, f.brandname),
                    !.mname = IF f.my_makername # <<>> THEN Inc(@, f.my_makername) ELSE @,
                    !.mb = inc_all(@, brands)]
        items0 == Get(st.pm, makercd, EmptyDict)
        e0 == Get(items0, f.jan_code, NoEntry)
        e1 == [e0 EXCEPT
                    !.name = <<f.makername>>,
                    !.b = <<f.brandname>>,
                    !.mname = IF f.my_makername # <<>> THEN <<f.my_makername>> ELSE @,
                    !.mb = set_all(@, brands)]
    IN  [pm |-> SetKey(st.pm, makercd, SetKey(items0, f.jan_code, e1)),
         pm_code |-> SetKey(st.pm_code, makercd, code1)]

\* the body of the line loop of get_pm_info
pm_row(st, raw) ==
    LET line == lower(strip(raw))
        parts == split_sep(line, "\t")
    IN  IF Len(parts) < MinFieldsPm THEN st
        ELSE
          LET f == [jan_code |-> parts[2], makercd |-> parts[3], makername |-> parts[4],
                    brandname |-> parts[7], my_makername |-> parts[8],
                    my_brands |-> parts[9]]
              my_makercd == <<"1", "0">> \o get_companycode_from_jancode(f.jan_code)
          IN  pm_update(pm_update(st, f.makercd, f), my_makercd, f)

RECURSIVE get_pm_info(_, _)
get_pm_info(st, file) ==
    IF file = <<>> THEN st ELSE get_pm_info(pm_row(st, Head(file)), Tail(file))

----------------------------------------------------------------------------
(* refine_label_rancode *)

\* minimum numbers of fields of a stdin line in pass 1 and in pass 2
MinFieldsPass1 == 4
MinFieldsPass2 == 12

RancodePrefix == <<"1", "0", "0", "1", "0", "0", "0">>
S_TRUE == <<"T", "R", "U", "E">>
S_FALSE == <<"F", "A", "L", "S", "E">>
S_UNKNOWN == <<"U", "N", "K", "N", "O", "W", "N">>
S_ZERO == <<"0">>

\* the body of the loop of pass 1, after lines.append(line)
count_line(h, line) ==
    LET parts == split_sep(line, "\t")
    IN  IF Len(parts) < MinFieldsPass1 THEN h
        ELSE IF parts[4] = S_ZERO THEN h
        ELSE LET g == Get(h, parts[4], [pred |-> EmptyDict])
             IN  SetKey(h, parts[4], [g EXCEPT !.pred = Inc(@, parts[1])])

\* sum(d.values())
RECURSIVE SumValues(_)
SumValues(d) ==
    IF DOMAIN d = {} THEN 0
    ELSE LET k == CHOOSE k \in DOMAIN d : TRUE IN d[k] + SumValues(DelKey(d, k))

\* r > 0.5 for a ratio r = num / den of two naturals, den > 0: the quotient of two
\* integers below 2^53 is above 0.5 as a double exactly when 2 * num > den
more_than_half(r) == 2 * r[1] > r[2]

\* a group verdict that also takes an even split as a majority
majority_verdict_ge(num_true, total) ==
    IF 2 * num_true >= total THEN "TRUE" ELSE "NONE"

\* if (num_true / total) > 0.5: ans = "TRUE" else "NONE"
majority_verdict(num_true, total) ==
    IF more_than_half(<<num_true, total>>) THEN "TRUE" ELSE "NONE"

\* the body of the loop over the groups
decide_group(g) ==
    LET total == SumValues(g.pred)
        num_true == Get(g.pred, S_TRUE, 0)
    IN  [pred |-> g.pred,
         ratio |-> IF total > 0 THEN <<num_true, total>> ELSE <<0, 1>>,
         total |-> total,
         ans |-> majority_verdict(num_true, total)]

\* bool(x) of an attribute that is None or a str
Truthy(opt) == opt # <<>> /\ opt[1] # <<>>

\* c_brand in name.lower(), for the maker name and the alternate maker name
company_match(cb, e) ==
    \/ Truthy(e.name) /\ contains(cb, lower(e.name[1]))
    \/ Truthy(e.mname) /\ contains(cb, lower(e.mname[1]))

\* a brand test that only asks whether the target is inside the catalogue name
brand_contains_oneway(pb, n) == contains(pb, n)

\* p_brand in n or n in p_brand
brand_contains(pb, n) == contains(pb, n) \/ contains(n, pb)

\* the brand name, then the loop over the alternate brand names
product_match(pb, e) ==
    \/ Truthy(e.b) /\ brand_contains(pb, lower(e.b[1]))
    \/ \E k \in DOMAIN e.mb : brand_contains(pb, lower(k))

\* a test that is satisfied by one flag
either_flag(p_flag, c_flag) == p_flag \/ c_flag

\* if p_flag and c_flag
both_flags(p_flag, c_flag) == p_flag /\ c_flag

\* parts[0] = "TRUE"; '\t'.join(parts)
relabel(parts) == join([parts EXCEPT ![1] = S_TRUE], "\t")

Printed(out, path) ==
    [out |-> out, path |-> path, c_flag |-> FALSE, p_flag |-> FALSE,
     jancode |-> <<>>, company_code |-> <<>>]

\* the body of the loop of pass 2: the line printed, the branch that printed it and
\* the locals of the catalogue check
refine_line(line, h, st, pb, cb) ==
    LET parts == split_sep(line, "\t")
    IN  IF Len(parts) < MinFieldsPass2 THEN Printed(line, "short")
        ELSE IF parts[4] = S_ZERO THEN Printed(line, "zero")
        ELSE
          LET rancode == parts[4]
              jancode == replace(rancode, RancodePrefix, <<>>)
              company_code == <<"1", "0">> \o get_companycode_from_jancode(jancode)
          IN  IF more_than_half(h[rancode].ratio)
              THEN [Printed(relabel(parts), "majority") EXCEPT
                        !.jancode = jancode, !.company_code = company_code]
              ELSE IF company_code \notin DOMAIN st.pm_code
              THEN [Printed(line, "no_company") EXCEPT
                        !.jancode = jancode, !.company_code = company_code]
              ELSE IF \/ company_code \notin DOMAIN st.pm
                      \/ jancode \notin DOMAIN st.pm[company_code]
              THEN [Printed(line, "no_item") EXCEPT
                        !.jancode = jancode, !.company_code = company_code]
              ELSE
                LET pm_entry == st.pm[company_code][jancode]
                    c_flag == company_match(cb, pm_entry)
                    p_flag == product_match(pb, pm_entry)
                IN  [out |-> IF both_flags(p_flag, c_flag)
                             THEN relabel(parts) ELSE join(parts, "\t"),
                     path |-> "checked", c_flag |-> c_flag, p_flag |-> p_flag,
                     jancode |-> jancode, company_code |-> company_code]

(* Inputs of the refiner *)

N_ACME == <<"A", "c", "m", "e">>
N_OTHER == <<"O", "t", "h", "e", "r">>
B_ALADDIN == <<"A", "l", "a", "d", "d", "i", "n">>
B_BLUE ==
    <<"A", "l", "a", "d", "d", "i", "n", " ", "B", "l", "u", "e", " ",
      "F", "l", "a", "m", "e">>
B_ALAD == <<"A", "l", "a", "d">>
B_ZZZ == <<"z", "z", "z">>
B_ALAD_ZZZ == <<"A", "l", "a", "d", ",", "z", "z", "z">>
B_ZZZ_COMMA == <<"z", "z", "z", ",">>

\* a catalogue row: flag, item code, company code, maker name, kana, formal name,
\* brand name, alternate maker name, alternate brand names, and further fields
PmRow(jan, makername, brandname, my_makername, my_brands, more) ==
    <<<<"1">>, jan, <<"m", "1">>, makername, <<"k">>, <<"f">>, brandname,
      my_makername, my_brands>> \o more

PmRows ==
    { PmRow(J49, N_ACME, B_BLUE, <<>>, B_ZZZ, <<>>),
      PmRow(J49, N_ACME, B_ALAD, <<>>, B_ZZZ, <<>>),
      PmRow(J49, N_ACME, B_ZZZ, <<>>, <<>>, <<<<"x">>>>),
      PmRow(J49, N_OTHER, B_ZZZ, N_ACME, B_ALAD_ZZZ, <<>>),
      PmRow(J49, N_ACME, <<>>, <<>>, B_ZZZ, <<>>),
      PmRow(J12, N_OTHER, B_ZZZ, <<>>, B_ZZZ_COMMA, <<>>),
      PmRow(J49, N_ACME, B_ALAD, <<>>, <<>>, <<>>) }

PBrandArgs == {B_ALADDIN}
CBrandArgs == {N_ACME}

\* a stdin line of the refiner: prediction, index, ground truth, rancode and n - 4
\* further fields
RefineRow(prediction, rancode, n) ==
    SubSeq(<<prediction, <<"1">>, S_TRUE, rancode>>, 1, IF n < 4 THEN n ELSE 4)
        \o [i \in 1..(n - 4) |-> <<"a">>]

\* an item code that holds the characters of the prefix literal
J_INNER == <<"4", "9", "1", "0", "0", "1", "0", "0", "0", "1", "2", "3", "4">>

R49 == RancodePrefix \o J49
R12 == RancodePrefix \o J12
R_INNER == RancodePrefix \o J_INNER

RefineRows ==
    { RefineRow(S_TRUE, R49, 12), RefineRow(S_FALSE, R49, 12),
      RefineRow(S_FALSE, R49, 5), RefineRow(S_UNKNOWN, R12, 12),
      RefineRow(S_TRUE, R12, 12), RefineRow(S_FALSE, S_ZERO, 12),
      RefineRow(S_TRUE, R49, 3), RefineRow(S_FALSE, R_INNER, 12),
      RefineRow(S_FALSE, S_ZERO, 12) \o <<<<>>>> }

Catalogue == [pm |-> pm, pm_code |-> pm_code]

RefineInit ==
    /\ FilterIdle
    /\ NgIdle
    /\ AggIdle
    /\ JanIdle
    /\ CallIdle
    /\ pm = EmptyDict
    /\ pm_code = EmptyDict
    /\ p_brand = <<>>
    /\ c_brand = <<>>
    /\ rawLines = <<>>
    /\ lines = <<>>
    /\ hash_rancode = EmptyDict
    /\ emitted = <<>>
    /\ rpc = "start"

\* pm_proc.get_pm_info(args.pm), then the two target brands are lower-cased
LoadPm ==
    /\ rpc = "start"
    /\ \E file \in AllSeqs(PmRows, MaxPmRows), pbrand \in PBrandArgs,
          cbrand \in CBrandArgs :
          LET st == get_pm_info(Catalogue, [i \in 1..Len(file) |-> RawLine(file[i])])
          IN  /\ pm' = st.pm
              /\ pm_code' = st.pm_code
              /\ p_brand' = lower(pbrand)
              /\ c_brand' = lower(cbrand)
    /\ rpc' = "pass1"
    /\ UNCHANGED <<cvars, jvars, rawLines, lines, hash_rancode, emitted, fvars, nvars, avars>>

\* one iteration of the stdin loop of pass 1
ReadLine ==
    /\ rpc = "pass1"
    /\ Len(lines) < MaxLines
    /\ \E r \in RefineRows :
          LET line == strip(RawLine(r))
          IN  /\ rawLines' = Append(rawLines, RawLine(r))
              /\ lines' = Append(lines, line)
              /\ hash_rancode' = count_line(hash_rancode, line)
    /\ UNCHANGED <<cvars, jvars, pm, pm_code, p_brand, c_brand, emitted, rpc, fvars, nvars, avars>>

\* end of stdin: the loop over the groups
DecideGroups ==
    /\ rpc = "pass1"
    /\ hash_rancode' = [g \in DOMAIN hash_rancode |-> decide_group(hash_rancode[g])]
    /\ rpc' = "pass2"
    /\ UNCHANGED <<cvars, jvars, pm, pm_code, p_brand, c_brand, rawLines, lines, emitted,
                   fvars, nvars, avars>>

\* an iteration of pass 2 that also counts the line it prints in the group statistics
EmitLineRecount ==
    /\ rpc = "pass2"
    /\ Len(emitted) < Len(lines)
    /\ LET e == refine_line(lines[Len(emitted) + 1], hash_rancode, Catalogue,
                             p_brand, c_brand)
           h == count_line(hash_rancode, e.out)
       IN  /\ emitted' = Append(emitted, e)
           /\ hash_rancode' = [g \in DOMAIN h |-> decide_group(h[g])]
    /\ UNCHANGED <<cvars, jvars, pm, pm_code, p_brand, c_brand, rawLines, lines, rpc,
                   fvars, nvars, avars>>

\* one iteration of the loop of pass 2
EmitLine ==
    /\ rpc = "pass2"
    /\ Len(emitted) < Len(lines)
    /\ emitted' = Append(emitted,
            refine_line(lines[Len(emitted) + 1], hash_rancode, Catalogue,
                        p_brand, c_brand))
    /\ UNCHANGED <<cvars, jvars, pm, pm_code, p_brand, c_brand, rawLines, lines, hash_rancode,
                   rpc, fvars, nvars, avars>>

RefineNext == LoadPm \/ ReadLine \/ DecideGroups \/ EmitLine

SpecRefine == RefineInit /\ [][RefineNext]_vars

----------------------------------------------------------------------------
(* NGWordProcessor.  The titles of the model are ASCII: of the substitutions of    *)
(* remove_ng_word_regex, those of lines 248-282 each need a character the titles   *)
(* of the model do not hold (a Japanese character, '/', ':' or '%') and leave      *)
(* such a title as it is; the substitutions of lines 285-296 are modelled.         *)

\* the body of the line loop of get_nglist, without the registry of compiled patterns
add_ng_word(d, line) ==
    LET word == strip(line)
        word_len == Len(word)
        first_letter == IF word # <<>> THEN word[1] ELSE ""
        by_len == Get(d, word_len, EmptyDict)
        by_first == Get(by_len, first_letter, EmptyDict)
    IN  SetKey(d, word_len, SetKey(by_len, first_letter, SetKey(by_first, word, 1)))

RECURSIVE get_nglist(_, _)
get_nglist(d, file) ==
    IF file = <<>> THEN d ELSE get_nglist(add_ng_word(d, Head(file)), Tail(file))

\* [0-9!@#$%^&*_+\-=]
SymbolClass ==
    {"0", "1", "2", "3", "4", "5", "6", "7", "8", "9",
     "!", "@", "#", "$", "%", "^", "&", "*", "_", "+", "-", "="}
\* [0-9,]
CountClass == {"0", "1", "2", "3", "4", "5", "6", "7", "8", "9", ","}
\* the ASCII alternatives of (個|本|枚|回|袋|ml|g|kg|l), in the order of the pattern
Units == << <<"m", "l">>, <<"g">>, <<"k", "g">>, <<"l">> >>

\* the index after the longest run of characters of cs that starts at index i
RECURSIVE RunEnd(_, _, _)
RunEnd(s, i, cs) == IF i <= Len(s) /\ s[i] \in cs THEN RunEnd(s, i + 1, cs) ELSE i

\* s has the text u at index i
HasAt(s, i, u) == i + Len(u) - 1 <= Len(s) /\ SubSeq(s, i, i + Len(u) - 1) = u

\* the index after a match of [0-9!@#$%^&*_+\-=]+ at index i, or 0
SymbolEnd(s, i) == IF RunEnd(s, i, SymbolClass) > i THEN RunEnd(s, i, SymbolClass) ELSE 0

\* the index after a match of ([0-9,]+)?(ml|g|kg|l) at index i, or 0: a count that is
\* cut short is followed by a character of the count, which starts no unit
UnitEnd(s, i) ==
    LET j == RunEnd(s, i, CountClass)
        hits == {k \in 1..Len(Units) : HasAt(s, j, Units[k])}
    IN  IF hits = {} THEN 0
        ELSE j + Len(Units[CHOOSE k \in hits : \A o \in hits : k <= o])

\* the index after a match of the token pattern of the given kind at index i, or 0
TokenEnd(kind, s, i) == IF kind = "symbol" THEN SymbolEnd(s, i) ELSE UnitEnd(s, i)

\* re.sub(r'^TOKEN\s', '', s)
sub_leading(kind, s) ==
    LET e == TokenEnd(kind, s, 1)
    IN  IF e > 0 /\ e <= Len(s) /\ IsSpace(s[e]) THEN SubSeq(s, e + 1, Len(s)) ELSE s

\* re.sub(r'\sTOKEN\s', ' ', s): the matches are taken left to right and do not
\* overlap, so the space that ends one match cannot start the next
RECURSIVE sub_inner(_, _)
sub_inner(kind, s) ==
    IF s = <<>> THEN <<>>
    ELSE LET e == TokenEnd(kind, s, 2)
         IN  IF IsSpace(s[1]) /\ e > 0 /\ e <= Len(s) /\ IsSpace(s[e])
             THEN <<" ">> \o sub_inner(kind, SubSeq(s, e + 1, Len(s)))
             ELSE <<s[1]>> \o sub_inner(kind, Tail(s))

\* re.sub(r'\sTOKEN$', '', s)
RECURSIVE sub_trailing(_, _)
sub_trailing(kind, s) ==
    IF s = <<>> THEN <<>>
    ELSE IF IsSpace(s[1]) /\ TokenEnd(kind, s, 2) = Len(s) + 1 THEN <<>>
    ELSE <<s[1]>> \o sub_trailing(kind, Tail(s))

remove_ng_word_regex(t) ==
    LET t1 == sub_leading("symbol", t)
        t2 == sub_inner("symbol", t1)
        t3 == sub_trailing("symbol", t2)
        t4 == sub_leading("unit", t3)
        t5 == sub_inner("unit", t4)
        t6 == sub_trailing("unit", t5)
    IN  strip(sub_spaces(t6))

\* a sort of the lengths that puts the shortest first
RECURSIVE sorted_shortest_first(_)
sorted_shortest_first(S) ==
    IF S = {} THEN <<>>
    ELSE LET m == CHOOSE x \in S : \A y \in S : x <= y
         IN  <<m>> \o sorted_shortest_first(S \ {m})

\* sorted(self.ng.keys(), reverse=True)
RECURSIVE sorted_reverse(_)
sorted_reverse(S) ==
    IF S = {} THEN <<>>
    ELSE LET m == CHOOSE x \in S : \A y \in S : x >= y
         IN  <<m>> \o sorted_reverse(S \ {m})

\* the loop over the word lengths at offset i (counted from 1): the first length
\* whose target is a word of the dictionary, or 0
RECURSIVE scan_lengths(_, _, _, _)
scan_lengths(d, t, i, lens) ==
    IF lens = <<>> THEN 0
    ELSE LET word_len == Head(lens)
             target == SubSeq(t, i, i + word_len - 1)
         IN  IF word_len + (i - 1) > Len(t) THEN scan_lengths(d, t, i, Tail(lens))
             ELSE IF target = <<>> THEN scan_lengths(d, t, i, Tail(lens))
             ELSE IF /\ word_len \in DOMAIN d
                     /\ target[1] \in DOMAIN d[word_len]
                     /\ target \in DOMAIN d[word_len][target[1]]
             THEN word_len
             ELSE scan_lengths(d, t, i, Tail(lens))

\* the loop over the offsets: the first match <<offset, length>>, or <<>>
RECURSIVE scan_offsets(_, _, _)
scan_offsets(d, t, i) ==
    IF i > Len(t) THEN <<>>
    ELSE LET word_len == scan_lengths(d, t, i, sorted_reverse(DOMAIN d))
         IN  IF word_len > 0 THEN <<i, word_len>> ELSE scan_offsets(d, t, i + 1)

RECURSIVE remove_ng_words(_, _)
remove_ng_words(d, t0) ==
    LET t == remove_ng_word_regex(t0)
        m == scan_offsets(d, t, 1)
    IN  IF m = <<>> THEN t
        ELSE remove_ng_words(d, replace(t, SubSeq(t, m[1], m[1] + m[2] - 1), <<>>))

(* Inputs of the NG-word run *)

W_AB == <<"A", "B">>
W_ABC == <<"A", "B", "C">>
NgLines == {W_AB, W_ABC, <<"A">>, <<"B">>, <<"1">>, <<>>}

T_XABCY == <<"X", "A", "B", "C", "Y">>
UnitTitles ==
    { <<"1", "g", " ", "A">>, <<"A", " ", "1", "g">>,
      <<"A", " ", "g", " ", "1", ",", "1", "k", "g", " ", "B">>,
      <<"A", " ", "1", "m", "l", " ", "1", " ", "B">>,
      <<"A", "1", "l", " ", "B", "-", "=">> }
NgTitles == AllSeqs({"A", "B", "1", " "}, MaxTitleLen) \cup {T_XABCY} \cup UnitTitles

NgInit ==
    /\ FilterIdle
    /\ RefineIdle
    /\ AggIdle
    /\ JanIdle
    /\ CallIdle
    /\ ng = EmptyDict
    /\ ngTitle = <<>>
    /\ first = [scanned |-> <<>>, match |-> <<>>]
    /\ cleaned = <<>>
    /\ again = <<>>
    /\ npc = "start"

\* ng_proc.get_nglist(self.args.f)
GetNgList ==
    /\ npc = "start"
    /\ \E file \in AllSeqs(NgLines, MaxNgWords) : ng' = get_nglist(ng, file)
    /\ npc' = "loaded"
    /\ UNCHANGED <<cvars, jvars, ngTitle, first, cleaned, again, fvars, rvars, avars>>

\* ptitle = ng_proc.remove_ng_words(ptitle)
RemoveNgWords ==
    /\ npc = "loaded"
    /\ \E t \in NgTitles :
          /\ ngTitle' = t
          /\ first' = [scanned |-> remove_ng_word_regex(t),
                       match |-> scan_offsets(ng, remove_ng_word_regex(t), 1)]
          /\ cleaned' = remove_ng_words(ng, t)
    /\ npc' = "removed"
    /\ UNCHANGED <<cvars, jvars, ng, again, fvars, rvars, avars>>

\* remove_ng_words applied to its own output
RemoveAgain ==
    /\ npc = "removed"
    /\ again' = remove_ng_words(ng, cleaned)
    /\ npc' = "reapplied"
    /\ UNCHANGED <<cvars, jvars, ng, ngTitle, first, cleaned, fvars, rvars, avars>>

NgNext == GetNgList \/ RemoveNgWords \/ RemoveAgain

SpecNG == NgInit /\ [][NgNext]_vars

----------------------------------------------------------------------------
(* The recursion of remove_ng_words, one call at a time.  Every call pushes a frame *)
(* of the interpreter, which raises RecursionError when no frame is left; the       *)
(* number of frames left when the outermost call is entered is an input.            *)

NgCallFiles == AllSeqs({W_AB, <<"A">>, <<>>}, MaxNgWords)
NgCallTitles == AllSeqs({"A", "B", " "}, MaxTitleLen)

\* the body of one call: the title scanned, the match of the scan, the target and the
\* title passed to the recursive call
call_body(d, t) ==
    LET scanned == remove_ng_word_regex(t)
        m == scan_offsets(d, scanned, 1)
        target == IF m = <<>> THEN <<>> ELSE SubSeq(scanned, m[1], m[1] + m[2] - 1)
    IN  [scanned |-> scanned, match |-> m, target |-> target,
         next |-> IF m = <<>> THEN scanned ELSE replace(scanned, target, <<>>)]

\* remove_ng_words(d, t) as the sequence of its nested calls, outermost first: a call
\* whose scan finds a match is followed by the call on the replaced title
RECURSIVE nested_calls(_, _)
nested_calls(d, t) ==
    LET b == call_body(d, t)
    IN  IF b.match = <<>> THEN <<b>> ELSE <<b>> \o nested_calls(d, b.next)

\* the innermost call
Scanned == Head(calls).scanned
Match == Head(calls).match
Target == Head(calls).target

NgCallInit ==
    /\ FilterIdle
    /\ RefineIdle
    /\ NgIdle
    /\ AggIdle
    /\ JanIdle
    /\ calls = <<>>
    /\ cur = <<>>
    /\ framesLeft = 0
    /\ removedWord = <<>>
    /\ cpc = "start"

\* ng_proc.get_nglist(self.args.f), then ng_proc.remove_ng_words(ptitle) is entered
NgCall ==
    /\ cpc = "start"
    /\ \E file \in NgCallFiles, t \in NgCallTitles, n \in 0..MaxFrames :
          /\ ng' = get_nglist(ng, file)
          /\ ngTitle' = t
          /\ calls' = nested_calls(get_nglist(ng, file), t)
          /\ cur' = t
          /\ framesLeft' = n
    /\ cpc' = "call"
    /\ UNCHANGED <<removedWord, first, cleaned, again, npc, fvars, rvars, avars, jvars>>

\* title = title.replace(target, ''); return self.remove_ng_words(title)
NgRecurse ==
    /\ cpc = "call"
    /\ Match # <<>>
    /\ framesLeft > 0
    /\ cur' = Head(calls).next
    /\ calls' = Tail(calls)
    /\ removedWord' = Target
    /\ framesLeft' = framesLeft - 1
    /\ UNCHANGED <<cpc, fvars, rvars, nvars, avars, jvars>>

\* the recursive call with no frame left: RecursionError, which nothing catches
NgRecursionError ==
    /\ cpc = "call"
    /\ Match # <<>>
    /\ framesLeft = 0
    /\ cpc' = "raised"
    /\ UNCHANGED <<calls, cur, framesLeft, removedWord, fvars, rvars, nvars, avars, jvars>>

\* the scan found no match: return title, through every pending call
NgReturn ==
    /\ cpc = "call"
    /\ Match = <<>>
    /\ cleaned' = Scanned
    /\ cpc' = "returned"
    /\ UNCHANGED <<calls, cur, framesLeft, removedWord, ng, ngTitle, first, again, npc,
                   fvars, rvars, avars, jvars>>

\* a step of the interpreter inside remove_ng_words
NgCallStep == NgRecurse \/ NgRecursionError \/ NgReturn

NgCallNext == NgCall \/ NgCallStep

\* a call that was entered is run by the interpreter until it returns or raises
SpecNgCall == NgCallInit /\ [][NgCallNext]_vars /\ WF_vars(NgCallStep)

----------------------------------------------------------------------------
(* DataProcessor.get_info_from_example, main_processing, main_ng_word and     *)
(* put_token_list.  The index field of a line is a decimal number, as the      *)
(* int() key of the index lists requires.                                      *)

\* str.upper() on the letters of the model alphabet
upper(s) ==
    [i \in 1..Len(s) |->
        IF \E k \in 1..Len(LowerCase) : LowerCase[k] = s[i]
        THEN UpperCase[CHOOSE k \in 1..Len(LowerCase) : LowerCase[k] = s[i]]
        ELSE s[i]]

\* the characters of the token lines, in code-point order
CodePoints ==
    <<" ", ",", "-", "0", "1", "2", "3", "4", "5", "6", "7", "8", "9",
      "A", "B", "C", "D", "E", "F", "L", "M", "N", "O", "R", "S", "T", "U", "X", "Y", "Z",
      "[", "]", "_",
      "a", "b", "c", "d", "e", "f", "g", "k", "l", "m", "n", "o", "r", "s", "t", "u",
      "x", "z", "|">>
ord(c) == CHOOSE i \in 1..Len(CodePoints) : CodePoints[i] = c

\* a < b for two str
RECURSIVE str_less(_, _)
str_less(a, b) ==
    IF b = <<>> THEN FALSE
    ELSE IF a = <<>> THEN TRUE
    ELSE IF a[1] # b[1] THEN ord(a[1]) < ord(b[1])
    ELSE str_less(Tail(a), Tail(b))

\* sorted(keys)
RECURSIVE sorted(_)
sorted(S) ==
    IF S = {} THEN <<>>
    ELSE LET m == CHOOSE x \in S : \A y \in S \ {x} : str_less(x, y)
         IN  <<m>> \o sorted(S \ {m})

Digits == <<"0", "1", "2", "3", "4", "5", "6", "7", "8", "9">>
\* int(s) of a decimal number
RECURSIVE int(_)
int(s) ==
    IF s = <<>> THEN 0
    ELSE 10 * int(SubSeq(s, 1, Len(s) - 1))
            + (CHOOSE d \in 0..9 : Digits[d + 1] = s[Len(s)])

\* sorted(keys, key=int), for keys of distinct values
RECURSIVE sorted_int(_)
sorted_int(S) ==
    IF S = {} THEN <<>>
    ELSE LET m == CHOOSE x \in S : \A y \in S : int(x) <= int(y)
         IN  <<m>> \o sorted_int(S \ {m})

\* minimum numbers of fields of the two shapes of a line
MinFieldsNoPrediction == 11
MinFieldsPrediction == 12

NoExample == [prediction |-> <<>>, index |-> <<>>, ptitle |-> <<>>, ititle |-> <<>>,
              g1_name |-> <<>>]

\* get_info_from_example: a value that is None is <<>>, a str s is <<s>>
get_info_from_example(flag, example) ==
    LET parts == split_sep(example, "\t")
    IN  IF flag = "NO_PREDICTION"
        THEN IF Len(parts) < MinFieldsNoPrediction THEN NoExample
             ELSE [prediction |-> <<upper(parts[2])>>, index |-> <<parts[1]>>,
                   ptitle |-> <<parts[4]>>, ititle |-> <<parts[5]>>,
                   g1_name |-> <<parts[9]>>]
        ELSE IF flag = "PREDICTION"
        THEN IF Len(parts) < MinFieldsPrediction THEN NoExample
             ELSE [prediction |-> <<parts[1]>>, index |-> <<parts[2]>>,
                   ptitle |-> <<parts[5]>>, ititle |-> <<parts[6]>>,
                   g1_name |-> <<parts[10]>>]
        ELSE NoExample

NoStats == [freq |-> 0, idx |-> EmptyDict, g1name |-> EmptyDict]

\* the body of the token loop; st = [hash_tokens, comp, prod]
agg_token(st, token, prediction, index, g1_name) ==
    LET by_label == Get(st.comp, token, EmptyDict)
        s0 == Get(by_label, prediction, NoStats)
        s1 == [freq |-> s0.freq + 1, idx |-> Inc(s0.idx, index),
               g1name |-> Inc(s0.g1name, g1_name)]
    IN  [hash_tokens |-> Inc(st.hash_tokens, token),
         comp |-> SetKey(st.comp, token, SetKey(by_label, prediction, s1)),
         prod |-> Inc(st.prod, token)]

RECURSIVE agg_tokens(_, _, _, _, _)
agg_tokens(st, toks, prediction, index, g1_name) ==
    IF toks = <<>> THEN st
    ELSE agg_tokens(agg_token(st, Head(toks), prediction, index, g1_name),
                    Tail(toks), prediction, index, g1_name)

\* the body of the stdin loop of main_processing (with_ng FALSE) and of
\* main_ng_word (with_ng TRUE, d the NG dictionary)
agg_line(st, with_ng, flag, d, raw) ==
    LET line == strip(raw)
        ex == get_info_from_example(flag, line)
    IN  IF ~Truthy(ex.prediction) THEN st
        ELSE
          LET ititle == ex.ititle[1]
              new_ititle == sub_spaces(IF ititle # <<>> THEN sub_brackets(ititle) ELSE <<>>)
              ptitle0 == IF ex.ptitle[1] = <<>> THEN new_ititle ELSE ex.ptitle[1]
              ptitle == IF with_ng
                        THEN remove_ng_words(d, sub_spaces(sub_brackets(ptitle0)))
                        ELSE ptitle0
          IN  agg_tokens(st, split_ws(ptitle), ex.prediction[1], ex.index[1],
                         ex.g1_name[1])

\* \w on the characters of the model alphabet
WordChars ==
    {CodePoints[i] : i \in 1..Len(CodePoints)} \ {" ", ",", "-", "[", "]", "|"}

\* re.match(r'^[0-9,]+(kg|g|ml|l)$', token)
is_quantity(token) ==
    LET j == RunEnd(token, 1, CountClass)
    IN  j > 1 /\ \E k \in 1..Len(Units) : SubSeq(token, j, Len(token)) = Units[k]

\* the four filters of put_token_list
is_reported(token) ==
    /\ ~(Len(token) < 2)
    /\ \E i \in 1..Len(token) : token[i] \in WordChars
    /\ ~(\A i \in 1..Len(token) : token[i] \in {Digits[k] : k \in 1..10})
    /\ ~is_quantity(token)

\* the provenance flag: "/".join(flags) if flags else "NONE"
provenance(token, it, pr) ==
    IF token \in DOMAIN it /\ token \in DOMAIN pr THEN "Item/Prod"
    ELSE IF token \in DOMAIN it THEN "Item"
    ELSE IF token \in DOMAIN pr THEN "Prod"
    ELSE "NONE"

\* the line printed for one token
token_line(token, cp, it, pr, with_idx) ==
    LET by_label == cp[token]
        has_true == S_TRUE \in DOMAIN by_label
        has_false == S_FALSE \in DOMAIN by_label
        base == [true_num |-> IF has_true THEN by_label[S_TRUE].freq ELSE 0,
                 false_num |-> IF has_false THEN by_label[S_FALSE].freq ELSE 0,
                 token |-> token,
                 flag |-> provenance(token, it, pr)]
    IN  IF with_idx
        THEN <<base.true_num, base.false_num, base.token, base.flag,
               IF has_true THEN sorted_int(DOMAIN by_label[S_TRUE].idx)
               ELSE <<"NO_TRUE_LIST">>,
               IF has_false THEN sorted_int(DOMAIN by_label[S_FALSE].idx)
               ELSE <<"NO_FALSE_LIST">>>>
        ELSE <<base.true_num, base.false_num, base.token, base.flag>>

\* put_token_list: the lines printed, in the order of the sorted tokens
put_token_list(ht, cp, it, pr, with_idx) ==
    LET toks == sorted(DOMAIN ht)
        kept == SelectSeq(toks, is_reported)
    IN  [i \in 1..Len(kept) |-> token_line(kept[i], cp, it, pr, with_idx)]

(* Inputs of the aggregation run *)

T_BRAND_QTY ==
    <<"B", "R", "A", "N", "D", " ", "5", "0", "0", "m", "l", " ", "x", " ", "1", "2">>
T_AB_BRACKET == <<"[", "A", "B", "]", " ", "-", "-">>
T_AB_PIPE == <<"A", "B", "|", "B", "R", "A", "N", "D">>
G1 == <<"g">>

\* a line of the prediction shape: prediction, index, ground truth, rancode, the two
\* titles and n - 6 further fields
PredictionRow(prediction, index, ptitle, ititle, n) ==
    <<prediction, index, S_TRUE, <<"1", "2", "3">>, ptitle, ititle>>
        \o [i \in 1..(n - 6) |-> G1]

\* a line of the ground-truth-only shape: index, ground truth, rancode, the two
\* titles and n - 5 further fields
NoPredictionRow(index, gtruth, ptitle, ititle, n) ==
    <<index, gtruth, <<"1", "2", "3">>, ptitle, ititle>> \o [i \in 1..(n - 5) |-> G1]

AggRows(flag) ==
    IF flag = "PREDICTION"
    THEN { PredictionRow(S_TRUE, <<"1", "0">>, T_BRAND_QTY, <<>>, 12),
           PredictionRow(S_FALSE, <<"2">>, T_AB_BRACKET, T_AB_PIPE, 12),
           PredictionRow(S_TRUE, <<"2">>, <<>>, T_AB_PIPE, 13),
           PredictionRow(S_UNKNOWN, <<"3">>, BRAND, <<>>, 12),
           PredictionRow(S_TRUE, <<"4">>, BRAND, <<>>, 11) }
    ELSE { NoPredictionRow(<<"1", "0">>, lower(S_TRUE), T_BRAND_QTY, <<>>, 11),
           NoPredictionRow(<<"2">>, S_FALSE, T_AB_BRACKET, T_AB_PIPE, 11),
           NoPredictionRow(<<"2">>, S_TRUE, <<>>, T_AB_PIPE, 12),
           NoPredictionRow(<<"3">>, <<>>, BRAND, <<>>, 11),
           NoPredictionRow(<<"4">>, S_TRUE, BRAND, <<>>, 10) }

\* the NG-word files of the aggregation run
AggNgFiles == {<<W_AB>>, <<BRAND, <<>>>>}

AggState == [hash_tokens |-> hash_tokens, comp |-> comp, prod |-> prod]

AggInit ==
    /\ FilterIdle
    /\ RefineIdle
    /\ NgIdle
    /\ JanIdle
    /\ CallIdle
    /\ aggMode = <<>>
    /\ hash_tokens = EmptyDict
    /\ comp = EmptyDict
    /\ item = EmptyDict
    /\ prod = EmptyDict
    /\ aggLines = <<>>
    /\ printed = <<>>
    /\ apc = "start"

\* main(): processor.main_processing("NO_PREDICTION") with --orig, and
\* processor.main_processing("PREDICTION") without
StartProcessing ==
    /\ apc = "start"
    /\ \E args_orig \in BOOLEAN, args_idx \in BOOLEAN :
          aggMode' = [with_ng |-> FALSE,
                      flag |-> IF args_orig THEN "NO_PREDICTION" ELSE "PREDICTION",
                      idx |-> args_idx]
    /\ apc' = "stdin"
    /\ UNCHANGED <<cvars, jvars, hash_tokens, comp, item, prod, aggLines, printed, fvars, rvars, nvars>>

\* main(): processor.main_ng_word("PREDICTION"), up to ng_proc.get_nglist(self.args.f)
StartNgWord ==
    /\ apc = "start"
    /\ \E args_idx \in BOOLEAN, file \in AggNgFiles :
          /\ aggMode' = [with_ng |-> TRUE, flag |-> "PREDICTION", idx |-> args_idx]
          /\ ng' = get_nglist(ng, file)
    /\ apc' = "stdin"
    /\ UNCHANGED <<cvars, jvars, hash_tokens, comp, item, prod, aggLines, printed,
                   ngTitle, first, cleaned, again, npc, fvars, rvars>>

\* one iteration of the stdin loop
AggLine ==
    /\ apc = "stdin"
    /\ Len(aggLines) < MaxLines
    /\ \E r \in AggRows(aggMode.flag) :
          LET st == agg_line(AggState, aggMode.with_ng, aggMode.flag, ng, RawLine(r))
          IN  /\ aggLines' = Append(aggLines, r)
              /\ hash_tokens' = st.hash_tokens
              /\ comp' = st.comp
              /\ prod' = st.prod
    /\ UNCHANGED <<cvars, jvars, aggMode, item, printed, apc, fvars, rvars, nvars>>

\* end of stdin: self.put_token_list(hash_tokens, comp, item, prod)
PutTokenList ==
    /\ apc = "stdin"
    /\ printed' = put_token_list(hash_tokens, comp, item, prod, aggMode.idx)
    /\ apc' = "done"
    /\ UNCHANGED <<cvars, jvars, aggMode, hash_tokens, comp, item, prod, aggLines, fvars, rvars, nvars>>

AggNext == StartProcessing \/ StartNgWord \/ AggLine \/ PutTokenList

SpecAgg == AggInit /\ [][AggNext]_vars

----------------------------------------------------------------------------
(* Claims on the token classifier and the listing decision engine *)

TrueKeys == DOMAIN htrue
FalseKeys == DOMAIN hfalse
ConflictKeys == DOMAIN hconflict

\* C1: once the base load is over, and after every override row, no token is a key
\* of two of the dictionaries TRUE, FALSE and CONFLICT.
C1_DisjointDictionaries ==
    fpc # "read_tokens" =>
        /\ TrueKeys \cap FalseKeys = {}
        /\ TrueKeys \cap ConflictKeys = {}
        /\ FalseKeys \cap ConflictKeys = {}

\* C2: right after an override row is applied, the token it tags TRUE is counted by
\* get_tokens_from_title as a TRUE hit and the token it tags FALSE as a FALSE hit,
\* whatever the base load had done with the token.
C2_OverridePrecedence ==
    (fpc = "add" /\ Len(addRow) >= 4) =>
        LET info == get_tokens_from_title(Dicts, addRow[4])
        IN  /\ addRow[1] \in {F_TRUE, F_TAISHO} =>
                  (info.true = 1 /\ info.false = 0 /\ info.conflict = 0)
            /\ addRow[1] \in {F_FALSE, F_TAISHOGAI, F_HITAISHO} =>
                  (info.false = 1 /\ info.true = 0 /\ info.conflict = 0)

\* C3: the verdict of every printed line is one of TRUE, FALSE, UNKNOWN; it is
\* UNKNOWN iff num_true = 0 and num_false = 0, otherwise TRUE iff
\* num_true >= num_false and FALSE iff num_true < num_false, whatever the
\* conflict count and the token count are.
C3_DecisionRule ==
    \A i \in 1..Len(result) :
        LET o == result[i]
        IN  /\ o.answer \in {"TRUE", "FALSE", "UNKNOWN"}
            /\ (o.answer = "UNKNOWN") <=> (o.num_true = 0 /\ o.num_false = 0)
            /\ (o.answer = "TRUE") <=>
                  (o.num_true + o.num_false > 0 /\ o.num_true >= o.num_false)
            /\ (o.answer = "FALSE") <=> (o.num_true < o.num_false)

\* a tie of non-zero counts, with a conflict token in the listing, printed as TRUE
C3_TieWitness ==
    /\ fpc = "printed"
    /\ Len(result) = 1
    /\ result[1].num_true = 1
    /\ result[1].num_false = 1
    /\ result[1].answer = "TRUE"

RECURSIVE RowTokens(_)
RowTokens(fields) ==
    IF fields = <<>> THEN {}
    ELSE {split_ws(Head(fields))[i] : i \in 1..Len(split_ws(Head(fields)))}
            \cup RowTokens(Tail(fields))

\* C4: a row of the ground-truth-only shape with an empty index field, primary title
\* "BRAND 500ml Set" and an empty secondary title, filtered with a dictionary in
\* which BRAND is a TRUE token and no other token of the row is a key, is printed
\* as one line with verdict TRUE and num_true = 1.
C4_EndToEnd ==
    (/\ fpc = "printed"
     /\ Len(row) >= MinFieldsFilter
     /\ row[1] = <<>>
     /\ row[4] = T_BRAND_SET
     /\ row[5] = <<>>
     /\ BRAND \in TrueKeys
     /\ RowTokens(row) \cap (TrueKeys \cup FalseKeys \cup ConflictKeys) = {BRAND})
    => (/\ Len(result) = 1
        /\ result[1].answer = "TRUE"
        /\ result[1].num_true = 1)

\* the whitespace/bracket normalization of a title
Normalized(title) == sub_spaces(sub_brackets(title))

\* C16: the counts of a printed line are the sums, and its word sets the unions, of
\* the counts and word sets the Token Classifier gives for the normalized primary
\* title and for the normalized secondary title; so with BRAND a TRUE token, the
\* title "[BRAND]" gives a TRUE hit in either title field.
C16_BothTitlesNormalized ==
    (fpc = "printed" /\ Len(row) >= MinFieldsFilter /\ row[1] # <<>>) =>
        LET p == get_tokens_from_title(Dicts, Normalized(row[4]))
            i == get_tokens_from_title(Dicts, Normalized(row[5]))
        IN  /\ Len(result) = 1
            /\ result[1].num_tokens = p.length + i.length
            /\ result[1].num_true = p.true + i.true
            /\ result[1].num_false = p.false + i.false
            /\ result[1].num_conflict = p.conflict + i.conflict
            /\ result[1].wlist_true = p.true_words \cup i.true_words
            /\ result[1].wlist_false = p.false_words \cup i.false_words
            /\ (BRAND \in TrueKeys /\ T_BRACKET \in {row[4], row[5]}) =>
                  result[1].num_true >= 1

----------------------------------------------------------------------------
(* Claims on the rancode refiner *)

Fields(line) == split_sep(line, "\t")

\* the buffered lines that pass 1 counts for group g, and those among them labelled TRUE
GroupRows(g) ==
    {i \in 1..Len(lines) :
        /\ Len(Fields(lines[i])) >= 4
        /\ Fields(lines[i])[4] # S_ZERO
        /\ Fields(lines[i])[4] = g}
TrueRows(g) == {i \in GroupRows(g) : Fields(lines[i])[1] = S_TRUE}
Groups == {Fields(lines[i])[4] : i \in {k \in 1..Len(lines) : Len(Fields(lines[k])) >= 4}} \ {S_ZERO}
Majority(g) == 2 * Cardinality(TrueRows(g)) > Cardinality(GroupRows(g))

\* a is a substring of s
IsSub(a, s) == \E i \in 0..(Len(s) - Len(a)) : SubSeq(s, i + 1, i + Len(a)) = a

\* C5: every row that pass 1 counted in a group whose TRUE ratio is above 0.5 is
\* printed by pass 2 with the label TRUE.
C5_MajorityForcesTrue ==
    \A i \in 1..Len(emitted) :
        \A g \in Groups :
            (i \in GroupRows(g) /\ Majority(g)) => Fields(emitted[i].out)[1] = S_TRUE

\* C6: a group's verdict is TRUE iff more than half of all the rows counted for it,
\* under any label, are labelled TRUE; the rows of a group with another verdict (an
\* even split included) are not printed by the majority branch: a row of 12 fields
\* or more is printed by the catalogue check.
C6_StrictMajority ==
    rpc = "pass2" =>
        /\ DOMAIN hash_rancode = Groups
        /\ \A g \in Groups :
              /\ hash_rancode[g].total = Cardinality(GroupRows(g))
              /\ hash_rancode[g].ans \in {"TRUE", "NONE"}
              /\ (hash_rancode[g].ans = "TRUE") <=> Majority(g)
              /\ \A i \in GroupRows(g) :
                    (i <= Len(emitted) /\ hash_rancode[g].ans = "NONE") =>
                        /\ emitted[i].path # "majority"
                        /\ Len(Fields(lines[i])) >= MinFieldsPass2 =>
                              emitted[i].path \in {"no_company", "no_item", "checked"}

\* a group of one TRUE and one FALSE row has verdict NONE, and its FALSE row is
\* printed by the catalogue check with its label kept
C6_EvenSplitWitness ==
    /\ rpc = "pass2"
    /\ \E g \in Groups :
          /\ Cardinality(GroupRows(g)) = 2
          /\ Cardinality(TrueRows(g)) = 1
          /\ hash_rancode[g].ans = "NONE"
          /\ \E i \in GroupRows(g) :
                /\ i <= Len(emitted)
                /\ emitted[i].path = "checked"
                /\ Fields(emitted[i].out)[1] = S_FALSE

\* the company code and the item code pass 2 derives from a group code
ItemOf(g) == replace(g, RancodePrefix, <<>>)
CompanyOf(g) == <<"1", "0">> \o get_companycode_from_jancode(ItemOf(g))

EntryOf(e) == pm[e.company_code][e.jancode]

\* C8 as stated: product_match is true exactly when the target is a substring of, or
\* has as a substring, the catalogue brand name or one of the alternate brand names.
C8_ContainmentAnyName ==
    \A i \in 1..Len(emitted) :
        emitted[i].path = "checked" =>
            LET entry == EntryOf(emitted[i])
                names == {entry.b[1]} \cup DOMAIN entry.mb
            IN  emitted[i].p_flag <=>
                    \E n \in names : IsSub(p_brand, n) \/ IsSub(n, p_brand)

\* C8, amended: product_match is true exactly when the catalogue brand name is not
\* empty and the target is a substring of it or it is a substring of the target, or
\* one of these containments holds for an alternate brand name of the item; so the
\* target "aladdin" matches the brand "aladdin blue flame" and the brand "alad".
C8_SymmetricContainment ==
    \A i \in 1..Len(emitted) :
        emitted[i].path = "checked" =>
            LET entry == EntryOf(emitted[i])
                b == entry.b[1]
            IN  /\ emitted[i].p_flag <=>
                      \/ b # <<>> /\ (IsSub(p_brand, b) \/ IsSub(b, p_brand))
                      \/ \E n \in DOMAIN entry.mb : IsSub(p_brand, n) \/ IsSub(n, p_brand)
                /\ (p_brand = lower(B_ALADDIN) /\ b \in {lower(B_BLUE), lower(B_ALAD)})
                      => emitted[i].p_flag

\* the target "aladdin" is matched with the catalogue brand "aladdin blue flame"
C8_TargetInBrandWitness ==
    \E i \in 1..Len(emitted) :
        /\ emitted[i].path = "checked"
        /\ p_brand = lower(B_ALADDIN)
        /\ EntryOf(emitted[i]).b = <<lower(B_BLUE)>>
        /\ DOMAIN EntryOf(emitted[i]).mb = {B_ZZZ}
        /\ emitted[i].p_flag

\* the buffered lines that have the 12 fields of the prediction shape
WellFormed(i) == Len(Fields(lines[i])) >= MinFieldsPrediction
WellFormedRows(g) == {i \in GroupRows(g) : WellFormed(i)}

\* C12: a line of fewer than 12 fields is skipped by both passes of the refiner: the
\* groups and their totals are those of the lines of 12 fields or more, and pass 2
\* prints no line for it.
C12_MalformedSkipped ==
    rpc = "pass2" =>
        /\ DOMAIN hash_rancode = {g \in Groups : WellFormedRows(g) # {}}
        /\ \A g \in DOMAIN hash_rancode :
              hash_rancode[g].total = Cardinality(WellFormedRows(g))
        /\ \A i \in 1..Len(emitted) : WellFormed(i)

\* the label pass 2 has to print for buffered line i, from the original labels of its
\* group and the catalogue
ExpectedLabel(i) ==
    LET f == Fields(lines[i])
        g == f[4]
    IN  IF Len(f) < MinFieldsPass2 \/ g = S_ZERO THEN f[1]
        ELSE IF Majority(g) THEN S_TRUE
        ELSE IF /\ CompanyOf(g) \in DOMAIN pm_code
                /\ CompanyOf(g) \in DOMAIN pm
                /\ ItemOf(g) \in DOMAIN pm[CompanyOf(g)]
                /\ company_match(c_brand, pm[CompanyOf(g)][ItemOf(g)])
                /\ product_match(p_brand, pm[CompanyOf(g)][ItemOf(g)])
        THEN S_TRUE
        ELSE f[1]

\* the histogram of the original labels of group g
OriginalHistogram(g) ==
    [l \in {Fields(lines[i])[1] : i \in GroupRows(g)} |->
        Cardinality({i \in GroupRows(g) : Fields(lines[i])[1] = l})]

C14_StatsOfOriginalLabels ==
    /\ emitted # <<>> => rpc = "pass2"
    /\ rpc = "pass2" =>
          /\ DOMAIN hash_rancode = Groups
          /\ \A g \in Groups :
                /\ hash_rancode[g].pred = OriginalHistogram(g)
                /\ hash_rancode[g].total = Cardinality(GroupRows(g))
                /\ hash_rancode[g].ratio =
                      <<Cardinality(TrueRows(g)), Cardinality(GroupRows(g))>>
                /\ (hash_rancode[g].ans = "TRUE") <=> Majority(g)
          /\ \A i \in 1..Len(emitted) : Fields(emitted[i].out)[1] = ExpectedLabel(i)

\* C14: no line is printed before every group's histogram, ratio, total and verdict
\* are computed from the original labels; no step of pass 2 changes them; and the
\* label printed for a line is the one determined by the original labels of its
\* group and the catalogue, whatever was printed for other lines and whatever the
\* order of the lines.
C14_TwoPassOrdering ==
    /\ []C14_StatsOfOriginalLabels
    /\ [][rpc = "pass2" => hash_rancode' = hash_rancode]_vars

\* two FALSE lines of one group without a majority: the first was revised to TRUE by
\* the catalogue check, and the second still goes through the catalogue check
C14_RevisedThenCheckedWitness ==
    \E i \in 1..Len(emitted), j \in 1..Len(emitted) :
        /\ i < j
        /\ Len(Fields(lines[i])) >= MinFieldsPass2
        /\ Len(Fields(lines[j])) >= MinFieldsPass2
        /\ Fields(lines[i])[4] = Fields(lines[j])[4]
        /\ Fields(lines[i])[1] = S_FALSE
        /\ Fields(emitted[i].out)[1] = S_TRUE
        /\ emitted[i].path = "checked"
        /\ emitted[j].path = "checked"

\* C15: for a line of a group code prefix + j that pass 2 looks up, the item code
\* derived from the group code is j, also when j holds the characters of the prefix.
C15_PrefixStripped ==
    \A i \in 1..Len(emitted) :
        (/\ emitted[i].path \notin {"short", "zero"}
         /\ startswith(Fields(lines[i])[4], RancodePrefix))
        => emitted[i].jancode =
              SubSeq(Fields(lines[i])[4], Len(RancodePrefix) + 1, Len(Fields(lines[i])[4]))

\* the fields of stdin line i as it was read, without its line terminator
InputFields(i) == split_sep(SubSeq(rawLines[i], 1, Len(rawLines[i]) - 1), "\t")

\* C17: pass 2 prints the lines of the input in their order, one for one; a printed
\* line has the fields of its input line, except that field 0 is either the input
\* label or TRUE; a line read with the label TRUE is printed with the label TRUE.
C17_RevisionFrame ==
    /\ Len(emitted) <= Len(rawLines)
    /\ \A i \in 1..Len(emitted) :
          LET old == InputFields(i)
              new == Fields(emitted[i].out)
          IN  /\ Len(new) = Len(old)
              /\ \A k \in 2..Len(old) : new[k] = old[k]
              /\ new[1] \in {old[1], S_TRUE}
              /\ old[1] = S_TRUE => new[1] = S_TRUE

\* the stdin lines whose group code is the sentinel "0"
SentinelRows ==
    {i \in 1..Len(rawLines) : Len(InputFields(i)) >= 4 /\ InputFields(i)[4] = S_ZERO}

\* C18: no group is keyed "0" and no line of group code "0" is counted in a group;
\* pass 2 prints each such line as it was read, whatever its label, the other lines
\* and the catalogue.
C18_SentinelGroup ==
    /\ S_ZERO \notin DOMAIN hash_rancode
    /\ \A g \in DOMAIN hash_rancode :
          SumValues(hash_rancode[g].pred) =
              Cardinality({i \in 1..Len(rawLines) \ SentinelRows :
                              Len(Fields(lines[i])) >= 4 /\ Fields(lines[i])[4] = g})
    /\ \A i \in SentinelRows :
          i <= Len(emitted) =>
              emitted[i].out = SubSeq(rawLines[i], 1, Len(rawLines[i]) - 1)

----------------------------------------------------------------------------
(* Claims on the JanCode company-code derivation *)

ShortPrefixes ==
    { <<"4", "9">>, <<"4", "5", "0">>, <<"4", "5", "1">>, <<"4", "5", "2">>,
      <<"4", "5", "3">>, <<"4", "5", "4">>, <<"4", "5", "5">> }

\* C13: for a JAN code of 13 characters the company code is the first 7 characters
\* when the code starts with 49 or with 450 to 455 and the first 9 otherwise; it is a
\* prefix of the code; 4901234567890 gives 7 characters and 1234567890123 gives 9.
C13_CompanyCode ==
    (jpc = "returned" /\ Len(janCode) = 13) =>
        LET short == \E q \in ShortPrefixes : SubSeq(janCode, 1, Len(q)) = q
        IN  /\ companyCode = SubSeq(janCode, 1, IF short THEN 7 ELSE 9)
            /\ SubSeq(janCode, 1, Len(companyCode)) = companyCode
            /\ janCode = J49 => Len(companyCode) = 7
            /\ janCode = J12 => Len(companyCode) = 9

\* a code that starts with 456 is not a short one: its company code has 9 characters
C13_Prefix456Witness ==
    /\ jpc = "returned"
    /\ SubSeq(janCode, 1, 3) = <<"4", "5", "6">>
    /\ Len(companyCode) = 9

----------------------------------------------------------------------------
(* Claims on the NG-word removal *)

\* the words of the NG dictionary
NgWordSet == UNION {UNION {DOMAIN ng[n][c] : c \in DOMAIN ng[n]} : n \in DOMAIN ng}

\* the word w stands in s at offset i (counted from 1)
OccursAt(w, s, i) == i + Len(w) - 1 <= Len(s) /\ SubSeq(s, i, i + Len(w) - 1) = w

\* C9: remove_ng_words applied to its own output returns that output, and the output
\* holds no non-empty word of the dictionary as a substring.
C9_FixedPoint ==
    npc = "reapplied" =>
        /\ again = cleaned
        /\ \A w \in NgWordSet \ {<<>>} : ~IsSub(w, cleaned)

\* C10: the outermost scan matches at the leftmost offset at which a non-empty word of
\* the dictionary stands, and takes the longest word that stands there; with the
\* words AB and ABC the title XABCY becomes XY.
C10_LeftmostLongest ==
    npc \in {"removed", "reapplied"} =>
        LET t == first.scanned
            hits == {<<i, w>> \in (1..Len(t)) \X (NgWordSet \ {<<>>}) : OccursAt(w, t, i)}
        IN  /\ (first.match = <<>>) <=> (hits = {})
            /\ first.match # <<>> =>
                  /\ <<first.match[1], SubSeq(t, first.match[1],
                                              first.match[1] + first.match[2] - 1)>> \in hits
                  /\ \A h \in hits :
                        /\ h[1] >= first.match[1]
                        /\ h[1] = first.match[1] => Len(h[2]) <= first.match[2]
            /\ (ngTitle = T_XABCY /\ NgWordSet = {W_AB, W_ABC}) =>
                  cleaned = <<"X", "Y">>

\* XABCY cleaned with the words AB and ABC: ABC is the word taken, and XY is returned
C10_XabcyWitness ==
    /\ npc = "removed"
    /\ ngTitle = T_XABCY
    /\ NgWordSet = {W_AB, W_ABC}
    /\ first.match = <<2, 3>>
    /\ cleaned = <<"X", "Y">>

----------------------------------------------------------------------------
(* Claims on the aggregation reporter *)

\* C11: when put_token_list runs, the membership sets item and prod are empty, and
\* the provenance flag of every token line it prints reads NONE.
C11_ProvenanceNone ==
    apc = "done" =>
        /\ DOMAIN item = {}
        /\ DOMAIN prod = {}
        /\ \A i \in 1..Len(printed) : printed[i][4] = "NONE"

----------------------------------------------------------------------------
(* Claims on the termination of the NG-word removal *)

\* C19: every call of remove_ng_words on a title of the model, with every NG
\* dictionary (the empty word included), returns; a recursive call is made only after
\* a non-empty target was removed, with a strictly shorter title; and the title
\* returned is one in which the scan finds no match.
C19_Terminates ==
    /\ (cpc = "call") ~> (cpc = "returned")
    /\ [][(cpc = "call" /\ cur' # cur) =>
              (removedWord' # <<>> /\ Len(cur') < Len(cur))]_vars
    /\ [](cpc = "returned" => scan_offsets(ng, cleaned, 1) = <<>>)

====
